---- MODULE Spec2Model ----
(***************************************************************************)
(* createQueryStore: the reactive, cache-backed query engine.              *)
(*                                                                         *)
(* The model follows the closure state of createQueryStore (activeFetch,   *)
(* activeAbortController, activeRefetchTimeout, lastFetchKey), the store   *)
(* state (enabled, error, lastFetchedAt, queryCache, queryKey, status),    *)
(* the subscription manager and one reactive parameter `id`.               *)
(*                                                                         *)
(* A handler is one action.  Handlers call each other (a timer calls       *)
(* fetch, reset's set() runs the enabled listener, ...), so each handler   *)
(* is written as an operator from a record of the mutable state (a         *)
(* "world", w) to the world after it, and an action applies one handler.   *)
(*                                                                         *)
(* Suspension points: the only await inside fetch is the await of the      *)
(* fetcher.  A fetch is therefore two steps: the synchronous part up to    *)
(* the await (Fetch) and the continuation after the fetcher settled        *)
(* (FetchSucceeded / FetchFailed), or after its abort controller fired     *)
(* (the ABORT_ERROR continuation, a microtask: it runs before any timer    *)
(* or fetcher settlement, but after the synchronous code that aborted).    *)
(*                                                                         *)
(* What the model fixes or leaves out:                                     *)
(*  - the fetcher returns a promise (it does not throw synchronously) and   *)
(*    echoes the id it was called with; it rejects with Error("x") or with *)
(*    an error named AbortError;                                           *)
(*  - retryDelay and cacheTime are numbers; `enabled` is a static boolean  *)
(*    except in the reactive scenario, where it is a reactive cell;        *)
(*  - a throwing onFetched is caught by the code and changes nothing, so   *)
(*    it is a thrower without effect; transform, setData and onError may   *)
(*    throw;                                                               *)
(*  - a timer whose callback ran leaves its handle in activeRefetchTimeout *)
(*    (the code nulls the handle only when it clears it): `fired`;         *)
(*  - the retry setTimeout overwrites activeRefetchTimeout without         *)
(*    clearTimeout; the overwritten timer, if pending, still fires:        *)
(*    leakedTimers;                                                        *)
(*  - the SubscriptionManager class is not part of the sources; its three  *)
(*    methods follow its specification (count, enabled flag, onSubscribe   *)
(*    on the first subscription and on enabling, onLastUnsubscribe);       *)
(*  - a timer carries whether the engine was enabled and subscribed when   *)
(*    it was set (auto), a fetch who called it (src): history, not state;  *)
(*  - in the main specification no cache entry lives long enough to        *)
(*    expire; expiry and pruning are checked in the cache scenario;        *)
(*  - the facade's reset and the reactive `enabled` cell act only in the   *)
(*    reactive scenario; createRainbowStore is not part of the sources:    *)
(*    the rehydration scenario starts from a store created over a          *)
(*    persisted projection, merged into the state as specified.            *)
(***************************************************************************)
EXTENDS Integers, Sequences, FiniteSets, TLC

\* ----------------------------------------------------------------- bounds
MaxTime == 2
MaxFetches == 3
MaxSubscribers == 1
\* calls of the store's API in one run (fetcher settlements, timers and the
\* clock are bounded by MaxFetches and MaxTime)
MaxCalls == 3
\* the clock of the retry scenario
RetryMaxTime == 4
\* the clock of the cache scenario: an entry written at time 1 with cacheTime 1
\* has expired from time 3 on
CacheMaxTime == 4

\* the largest number of keys of a parameter map in the query-key scenario
MaxParams == 2

\* -------------------------------------------------------------- constants
\* null for a timestamp, a datum, a controller or a promise
Null == 0
\* JavaScript's Infinity, for staleTime / cacheTime / retryDelay
Infinity == 1000
\* options.staleTime absent
NoOverride == -1

IdVals == {1, 2}
\* the ids store.fetch is called with explicitly
ExplicitIds == {2}
StaleTimes == {1}
StaleOverrides == {NoOverride, 2}
CacheTimes == {1}
RetryDelays == {1}
MaxRetriesChoices == {0, 1, 2}

NoError == "none"
ABORT_ERROR == "ABORT_ERROR"
NativeAbortError == "AbortError"
FetcherErrors == {"x", NativeAbortError}

\* params === undefined
NoParams == [id |-> Null]
\* lastFetchKey === null, activeFetch === null
NullKey == <<-1>>
NoFetch == [key |-> NullKey, promise |-> Null]
NoErrorInfo == [error |-> NoError, lastFailedAt |-> Null, retryCount |-> 0]
NoEntry == [cacheTime |-> 0, data |-> Null, errorInfo |-> NoErrorInfo, lastFetchedAt |-> Null]
\* auto (history): the engine was enabled and subscribed when the timer was set
NoTimer == [kind |-> "none", due |-> 0, params |-> NoParams, fired |-> FALSE, auto |-> FALSE]
NoRet == [kind |-> "none", val |-> Null]
NoDone == [fid |-> Null, key |-> NullKey, out |-> "none", val |-> Null, err |-> NoError,
           skip |-> FALSE, src |-> "none", stopped |-> FALSE]
\* a fetch operation that has returned: nothing of it is read again
SettledOp == [key |-> NullKey, params |-> NoParams, arg |-> NoParams, skip |-> FALSE,
              stale |-> NoOverride, ctl |-> FALSE, src |-> "none", st |-> "settled",
              stopped |-> FALSE]

QueryStatuses == {"error", "idle", "loading", "success"}

AllConfigs ==
    [ abortInterruptedFetches : BOOLEAN,
      disableCache : BOOLEAN,
      keepPreviousData : BOOLEAN,
      hasSetData : BOOLEAN,
      hasTransform : BOOLEAN,
      disableAutoRefetching : BOOLEAN,
      maxRetries : MaxRetriesChoices,
      staleTime : StaleTimes,
      cacheTime : CacheTimes,
      retryDelay : RetryDelays ]

\* The configs of a run: the cache modes (default, disableCache, keepPreviousData)
\* with and without abortInterruptedFetches, and with abortInterruptedFetches each
\* of: transform configured, setData and transform configured,
\* disableAutoRefetching, maxRetries = 0.
Deviations(c) ==
    (IF c.disableCache THEN 1 ELSE 0) + (IF c.keepPreviousData THEN 1 ELSE 0)
    + (IF c.hasTransform THEN 1 ELSE 0) + (IF c.disableAutoRefetching THEN 1 ELSE 0)
    + (IF c.maxRetries = 0 THEN 1 ELSE 0)

Configs ==
    {c \in AllConfigs :
        /\ Deviations(c) <= 1
        /\ c.hasSetData => c.hasTransform
        /\ c.maxRetries <= 1
        /\ (c.hasTransform \/ c.disableAutoRefetching \/ c.maxRetries = 0)
               => c.abortInterruptedFetches}

VARIABLES
    cfg,                    \* the config createQueryStore was called with
    calls,                  \* number of API calls made so far
    now,                    \* Date.now()
    paramVal,               \* attachVals.params.id.value
    oldVal,                 \* the param listener's oldVal
    paramSubscribed,        \* paramUnsubscribes is not empty
    enabled, error, lastFetchedAt, queryCache, queryKey, status,   \* store state
    smEnabled, subscriptionCount,                                  \* subscriptionManager
    lastHandledEnabled,
    activeAbortController,  \* the fetch whose controller it is, or Null
    activeFetch,
    activeRefetchTimeout,
    leakedTimers,           \* timers still pending whose handle was overwritten
    lastFetchKey,
    fetches,                \* every fetcher invocation, in order; src (who called fetch)
                            \* and stopped (reset() ran meanwhile) are history
    onErrorLog,             \* the retryCounts onError was called with
    ret,                    \* what the call of fetch() in the last step returned
    done,                   \* how the promise settled whose fetch operation returned last step
    enabledCell,            \* attachVals.enabled: its value and its listener's oldVal
    probe                   \* query-key scenario: two parameter maps and their query keys

storeVars == <<enabled, error, lastFetchedAt, queryCache, queryKey, status>>
engineVars == <<cfg, calls, now, paramVal, oldVal, paramSubscribed, enabled, error,
                lastFetchedAt, queryCache, queryKey, status, smEnabled, subscriptionCount,
                lastHandledEnabled, activeAbortController, activeFetch, activeRefetchTimeout,
                leakedTimers, lastFetchKey, fetches, onErrorLog, ret, done, enabledCell>>
vars == <<engineVars, probe>>

\* The mutable state a handler works on.
World ==
    [ enabled |-> enabled, error |-> error, lastFetchedAt |-> lastFetchedAt,
      queryCache |-> queryCache, queryKey |-> queryKey, status |-> status,
      smEnabled |-> smEnabled, subscriptionCount |-> subscriptionCount,
      lastHandledEnabled |-> lastHandledEnabled,
      activeAbortController |-> activeAbortController, activeFetch |-> activeFetch,
      activeRefetchTimeout |-> activeRefetchTimeout, leakedTimers |-> leakedTimers,
      lastFetchKey |-> lastFetchKey, fetches |-> fetches, onErrorLog |-> onErrorLog,
      ret |-> NoRet, done |-> NoDone ]

Apply(w) ==
    /\ Len(w.fetches) <= MaxFetches
    /\ enabled' = w.enabled
    /\ error' = w.error
    /\ lastFetchedAt' = w.lastFetchedAt
    /\ queryCache' = w.queryCache
    /\ queryKey' = w.queryKey
    /\ status' = w.status
    /\ smEnabled' = w.smEnabled
    /\ subscriptionCount' = w.subscriptionCount
    /\ lastHandledEnabled' = w.lastHandledEnabled
    /\ activeAbortController' = w.activeAbortController
    /\ activeFetch' = w.activeFetch
    /\ activeRefetchTimeout' = w.activeRefetchTimeout
    /\ leakedTimers' = w.leakedTimers
    /\ lastFetchKey' = w.lastFetchKey
    /\ fetches' = w.fetches
    /\ onErrorLog' = w.onErrorLog
    /\ ret' = w.ret
    /\ done' = w.done

\* ------------------------------------------------------------ pure helpers
getQueryKey(params) == <<params.id>>

\* getQueryKey for any parameter map. A map is the sequence of its [key, value]
\* entries in insertion order; a key is the sequence of its UTF-16 code units;
\* a value is the text of a JavaScript literal; the key returned is the sequence
\* of the JSON texts of the array's elements.
KeyNames == {<<1>>, <<1, 2>>, <<2>>}

ParamValues == {"1", "'1'", "null", "undefined"}

ParamMaps ==
    UNION {{m \in [1..n -> [key : KeyNames, value : ParamValues]] :
               \A i, j \in 1..n : i # j => m[i].key # m[j].key} : n \in 0..MaxParams}

\* the order sort() without a comparator puts strings in: by code units
RECURSIVE KeyLess(_, _)
KeyLess(a, b) ==
    IF b = << >> THEN FALSE
    ELSE IF a = << >> THEN TRUE
    ELSE IF Head(a) # Head(b) THEN Head(a) < Head(b)
    ELSE KeyLess(Tail(a), Tail(b))

\* Object.keys(params)
ObjectKeys(params) == [i \in 1..Len(params) |-> params[i].key]

RECURSIVE InsertKey(_, _)
InsertKey(key, sorted) ==
    IF sorted = << >> THEN <<key>>
    ELSE IF KeyLess(key, Head(sorted)) THEN <<key>> \o sorted
    ELSE <<Head(sorted)>> \o InsertKey(key, Tail(sorted))

\* keys.sort()
RECURSIVE SortKeys(_)
SortKeys(keys) ==
    IF keys = << >> THEN << >> ELSE InsertKey(Head(keys), SortKeys(Tail(keys)))

\* params[key]
ValueAt(params, key) == params[CHOOSE i \in 1..Len(params) : params[i].key = key].value

\* JSON.stringify of an array element: undefined is written as null
JSONstringify(value) ==
    IF value = "undefined" THEN "null"
    ELSE IF value = "'1'" THEN "\"1\""
    ELSE value

\* (variant: the keys are not sorted)
getQueryKeyUnsorted(params) ==
    [i \in 1..Len(params) |-> JSONstringify(params[i].value)]

getQueryKeyOfMap(params) ==
    LET keys == SortKeys(ObjectKeys(params))
    IN [i \in 1..Len(keys) |-> JSONstringify(ValueAt(params, keys[i]))]

getCurrentResolvedParams == [id |-> paramVal]

\* (variant: the transform is not applied)
transformIdentity(raw, params) == raw

transform(raw, params) == IF cfg.hasTransform THEN 10 * params.id + raw ELSE raw

CacheEntryOf(w, key) == IF key \in DOMAIN w.queryCache THEN w.queryCache[key] ELSE NoEntry

\* {...queryCache, [key]: entry}
WithEntry(cache, key, entry) ==
    [k \in DOMAIN cache \cup {key} |-> IF k = key THEN entry ELSE cache[k]]

\* (disableCache ? lastFetchKey === key && lastFetchedAt : queryCache[key]?.lastFetchedAt) || null
LastFetchedAtFor(w, key) ==
    IF cfg.disableCache
    THEN IF w.lastFetchKey = key THEN w.lastFetchedAt ELSE Null
    ELSE CacheEntryOf(w, key).lastFetchedAt

\* (variant: the staleTime of the call's options is ignored)
EffectiveStaleTimeOfConfig(stale) == cfg.staleTime

EffectiveStaleTime(stale) == IF stale # NoOverride THEN stale ELSE cfg.staleTime

Max0(n) == IF n < 0 THEN 0 ELSE n

IsPending(t) == t.kind # "none" /\ ~t.fired

\* clearTimeout(activeRefetchTimeout); activeRefetchTimeout = null
ClearRefetchTimeout(w) == [w EXCEPT !.activeRefetchTimeout = NoTimer]

\* mutation: the controller is dropped without being aborted
abortActiveFetchDropsOnly(w) == [w EXCEPT !.activeAbortController = Null]

abortActiveFetch(w) ==
    IF w.activeAbortController # Null
    THEN [w EXCEPT !.fetches[w.activeAbortController].st =
                       IF @ = "pending" THEN "aborted" ELSE @,
                   !.activeAbortController = Null]
    ELSE w

scheduleNextFetch(w, params, stale) ==
    IF cfg.disableAutoRefetching THEN w
    ELSE LET effectiveStaleTime == EffectiveStaleTime(stale) IN
         IF effectiveStaleTime <= 0 \/ effectiveStaleTime = Infinity THEN w
         ELSE LET last == LastFetchedAtFor(w, getQueryKey(params))
                  timeUntilRefetch == IF last # Null
                                      THEN effectiveStaleTime - (now - last)
                                      ELSE effectiveStaleTime
              IN [w EXCEPT !.activeRefetchTimeout =
                      [kind |-> "refetch", due |-> now + Max0(timeUntilRefetch),
                       params |-> params, fired |-> FALSE,
                       auto |-> w.enabled /\ w.smEnabled /\ w.subscriptionCount > 0]]

\* --------------------------------------------------------------- fetch()
FetchIsStale(w, key, stale) ==
    LET last == LastFetchedAtFor(w, key)
    IN last = Null \/ now - last >= EffectiveStaleTime(stale)

\* mutation: > for >=
errorRetriesExhaustedStrict(entry) ==
    entry.errorInfo # NoErrorInfo /\ entry.errorInfo.retryCount > cfg.maxRetries

errorRetriesExhausted(entry) ==
    entry.errorInfo # NoErrorInfo /\ entry.errorInfo.retryCount >= cfg.maxRetries

FreshHit(w, key, stale) ==
    LET entry == CacheEntryOf(w, key)
    IN ~FetchIsStale(w, key, stale)
       /\ (entry.errorInfo = NoErrorInfo \/ errorRetriesExhausted(entry))

\* mutation: the active fetch is not compared by key
DedupHitAnyKey(w, key, force) ==
    /\ w.activeFetch.promise # Null
    /\ w.status = "loading"
    /\ ~force

DedupHit(w, key, force) ==
    /\ w.activeFetch.promise # Null
    /\ w.activeFetch.key = key
    /\ w.status = "loading"
    /\ ~force

\* mutation: the enabled check is skipped while a fetch is active
RefusedAsDisabledWhenIdle(w, force) ==
    ~force /\ ~w.smEnabled /\ w.activeFetch = NoFetch

RefusedAsDisabled(w, force) == ~force /\ ~w.smEnabled

\* From "if (!skipStoreUpdates) { set loading; activeFetch = {key} }" to the
\* await of the fetcher inside fetchOperation, and the return of its promise.
StartFetch(w, arg, params, skip, stale, src) ==
    LET key == getQueryKey(params)
        fid == Len(w.fetches) + 1
        ctl == cfg.abortInterruptedFetches /\ ~skip
        setLoading == w.error # NoError \/ w.status # "loading"
        op == [key |-> key, params |-> params, arg |-> arg, skip |-> skip,
               stale |-> stale, ctl |-> ctl, src |-> src, st |-> "pending",
               stopped |-> FALSE]
    IN [w EXCEPT !.error = IF ~skip /\ setLoading THEN NoError ELSE @,
                 !.status = IF ~skip /\ setLoading THEN "loading" ELSE @,
                 !.activeFetch = IF ~skip THEN [key |-> key, promise |-> fid] ELSE @,
                 !.activeAbortController = IF ctl THEN fid ELSE @,
                 !.fetches = Append(@, op),
                 !.ret = [kind |-> "started", val |-> fid]]

\* (variant: the cached return leaves queryKey alone)
CachedReturnKeepsKey(w, params, stale) ==
    LET key == getQueryKey(params)
        w1 == IF /\ w.activeRefetchTimeout.kind = "none"
                 /\ w.subscriptionCount > 0
                 /\ cfg.staleTime # 0
                 /\ cfg.staleTime # Infinity
              THEN scheduleNextFetch(w, params, stale)
              ELSE w
    IN [w1 EXCEPT !.ret = [kind |-> "data", val |-> CacheEntryOf(w1, key).data]]

CachedReturn(w, params, stale) ==
    LET key == getQueryKey(params)
        w1 == IF /\ w.activeRefetchTimeout.kind = "none"
                 /\ w.subscriptionCount > 0
                 /\ cfg.staleTime # 0
                 /\ cfg.staleTime # Infinity
              THEN scheduleNextFetch(w, params, stale)
              ELSE w
        w2 == IF cfg.keepPreviousData /\ w1.queryKey # key
              THEN [w1 EXCEPT !.queryKey = key]
              ELSE w1
    IN [w2 EXCEPT !.ret = [kind |-> "data", val |-> CacheEntryOf(w2, key).data]]

Fetch(w, arg, force, skip, stale, src) ==
    IF RefusedAsDisabled(w, force) THEN [w EXCEPT !.ret = [kind |-> "null", val |-> Null]]
    ELSE LET effectiveParams == IF arg = NoParams THEN getCurrentResolvedParams ELSE arg
             currentQueryKey == getQueryKey(effectiveParams)
         IN IF DedupHit(w, currentQueryKey, force)
            THEN [w EXCEPT !.ret = [kind |-> "dedup", val |-> w.activeFetch.promise]]
            ELSE LET w1 == IF cfg.abortInterruptedFetches /\ ~skip
                           THEN abortActiveFetch(w) ELSE w
                 IN IF ~force /\ FreshHit(w1, currentQueryKey, stale)
                    THEN CachedReturn(w1, effectiveParams, stale)
                    ELSE StartFetch(w1, arg, effectiveParams, skip, stale, src)

\* ------------------------------------------------- fetchOperation, resumed
\* cacheTimeIsFunction ? cacheTime(params) : cacheTime
CacheTimeFor(params) == cfg.cacheTime

\* (variant: nothing is pruned)
pruneCacheKeepsAll(keepPreviousData, keyToPreserve, key0, cache) == cache

pruneCache(keepPreviousData, keyToPreserve, key0, cache) ==
    LET preserve == IF keyToPreserve # NullKey THEN keyToPreserve
                    ELSE IF keepPreviousData /\ key0 # <<>> THEN key0 ELSE NullKey
        stamp(entry) == IF entry.lastFetchedAt # Null THEN entry.lastFetchedAt
                        ELSE entry.errorInfo.lastFailedAt
        isValid(key) == now - stamp(cache[key]) <= cache[key].cacheTime \/ key = preserve
    IN [key \in {k \in DOMAIN cache : isValid(k)} |-> cache[key]]

\* the finally blocks: fetchWithAbortControl's, then fetchOperation's
Finally(w, fid) ==
    [w EXCEPT !.activeAbortController = IF @ = fid THEN Null ELSE @,
              !.activeFetch = IF ~w.fetches[fid].skip THEN NoFetch ELSE @,
              !.fetches[fid] = SettledOp]

\* the promise of fetch operation fid settles: out is "data", "null" or "rejected";
\* err is the error the operation caught, if any
Resolve(w, fid, out, val, err) ==
    [w EXCEPT !.done = [fid |-> fid, key |-> w.fetches[fid].key, out |-> out, val |-> val,
                        err |-> err, skip |-> w.fetches[fid].skip,
                        src |-> w.fetches[fid].src, stopped |-> w.fetches[fid].stopped]]

\* mutation: only the engine's own sentinel counts as an abort
IsAbortErrorSentinelOnly(err) == err = ABORT_ERROR

IsAbortError(err) == err = ABORT_ERROR \/ err = NativeAbortError

\* the retry timer of the catch block; the handle it overwrites is not cleared
ScheduleRetry(w, fid) ==
    IF w.subscriptionCount > 0 /\ cfg.retryDelay # Infinity
    THEN [w EXCEPT !.activeRefetchTimeout =
                       [kind |-> "retry", due |-> now + cfg.retryDelay,
                        params |-> w.fetches[fid].arg, fired |-> FALSE,
                        auto |-> w.enabled /\ w.smEnabled],
                   !.leakedTimers = IF IsPending(w.activeRefetchTimeout)
                                    THEN @ \cup {w.activeRefetchTimeout} ELSE @]
    ELSE w

\* (variant: the error entry replaces the entry, data and lastFetchedAt are lost)
RecordErrorOverwriting(w, fid, err, retryCount) ==
    LET f == w.fetches[fid]
    IN [w EXCEPT !.error = err,
                 !.queryCache = WithEntry(@, f.key,
                     [cacheTime |-> CacheTimeFor(f.params),
                      data |-> Null,
                      lastFetchedAt |-> Null,
                      errorInfo |-> [error |-> err, lastFailedAt |-> now,
                                     retryCount |-> retryCount]]),
                 !.queryKey = IF cfg.keepPreviousData THEN f.key ELSE @,
                 !.status = "error"]

RecordError(w, fid, err, retryCount) ==
    LET f == w.fetches[fid]
        hasEntry == ~cfg.disableCache /\ f.key \in DOMAIN w.queryCache
        entry == IF hasEntry THEN w.queryCache[f.key] ELSE NoEntry
    IN [w EXCEPT !.error = err,
                 !.queryCache = WithEntry(@, f.key,
                     [cacheTime |-> IF hasEntry THEN entry.cacheTime ELSE CacheTimeFor(f.params),
                      data |-> entry.data,
                      lastFetchedAt |-> entry.lastFetchedAt,
                      errorInfo |-> [error |-> err, lastFailedAt |-> now,
                                     retryCount |-> retryCount]]),
                 !.queryKey = IF cfg.keepPreviousData THEN f.key ELSE @,
                 !.status = "error"]

\* mutation: one retry too few
CanRetryOffByOne(currentRetryCount) == currentRetryCount < cfg.maxRetries - 1

\* if (currentRetryCount < maxRetries)
CanRetry(currentRetryCount) == currentRetryCount < cfg.maxRetries

\* entry?.errorInfo?.retryCount ?? 0, entry = disableCache ? undefined : queryCache[key]
CurrentRetryCount(w, key) ==
    IF cfg.disableCache THEN 0 ELSE CacheEntryOf(w, key).errorInfo.retryCount

\* the catch block of fetchOperation, and its finally
ErrorPath(w, fid, err, onErrorThrows) ==
    LET f == w.fetches[fid]
        currentRetryCount == CurrentRetryCount(w, f.key)
        called == [w EXCEPT !.onErrorLog = Append(@, currentRetryCount)]
    IN IF IsAbortError(err) THEN Finally(Resolve(w, fid, "null", Null, err), fid)
       ELSE IF f.skip THEN Finally(Resolve(w, fid, "null", Null, err), fid)
       ELSE IF onErrorThrows THEN Finally(Resolve(called, fid, "rejected", Null, err), fid)
       ELSE IF CanRetry(currentRetryCount)
       THEN Finally(Resolve(RecordError(ScheduleRetry(called, fid), fid, err,
                                        currentRetryCount + 1), fid, "null", Null, err), fid)
       ELSE Finally(Resolve(RecordError(called, fid, err, cfg.maxRetries),
                            fid, "null", Null, err), fid)

\* the set() of the success path
CommitSuccess(w, fid, data) ==
    LET f == w.fetches[fid]
        entry == [cacheTime |-> CacheTimeFor(f.params),
                  data |-> IF cfg.hasSetData THEN Null ELSE data,
                  errorInfo |-> NoErrorInfo,
                  lastFetchedAt |-> now]
        newKey == IF cfg.keepPreviousData THEN f.key ELSE w.queryKey
        written == IF cfg.disableCache THEN w.queryCache
                   ELSE WithEntry(w.queryCache, f.key, entry)
    IN [w EXCEPT !.error = NoError,
                 !.lastFetchedAt = now,
                 !.queryKey = newKey,
                 !.status = "success",
                 !.queryCache = IF cfg.disableCache \/ cfg.cacheTime = Infinity
                                THEN written
                                ELSE pruneCache(cfg.keepPreviousData, f.key, newKey, written)]

\* the try block of fetchOperation after the await, and its finally.
\* thrower: the callback that throws in this run, if any.
SuccessPath(w, fid, raw, thrower) ==
    LET f == w.fetches[fid]
        data == transform(raw, f.params)
    IN IF thrower = "transform" THEN ErrorPath(w, fid, "TransformError", FALSE)
       ELSE IF f.skip THEN Finally(Resolve(w, fid, "data", data, NoError), fid)
       ELSE IF thrower = "setData" THEN ErrorPath(w, fid, "SetDataError", FALSE)
       ELSE LET w1 == CommitSuccess(w, fid, data)
                w2 == [w1 EXCEPT !.lastFetchKey = f.key]
                w3 == scheduleNextFetch(w2, f.params, f.stale)
            IN Finally(Resolve(w3, fid, "data", data, NoError), fid)

Throwers == {"none", "onFetched"}
                \cup (IF cfg.hasTransform THEN {"transform"} ELSE {})
                \cup (IF cfg.hasSetData THEN {"setData"} ELSE {})

\* ------------------------------------------------------- store methods
\* (variant: a missing lastFetchedAt is not treated apart)
isStaleOfTimestamp(w, stale) ==
    now - LastFetchedAtFor(w, w.queryKey) > EffectiveStaleTime(stale)

isStale(w, stale) ==
    LET last == LastFetchedAtFor(w, w.queryKey)
    IN last = Null \/ now - last > EffectiveStaleTime(stale)

\* getState().getData(params)
getData(w, params) ==
    IF cfg.disableCache THEN Null
    ELSE LET currentQueryKey == IF params # NoParams THEN getQueryKey(params) ELSE w.queryKey
             cacheEntry == CacheEntryOf(w, currentQueryKey)
             isExpired == /\ cacheEntry.lastFetchedAt # Null
                          /\ now - cacheEntry.lastFetchedAt > cacheEntry.cacheTime
         IN IF cfg.keepPreviousData THEN cacheEntry.data
            ELSE IF isExpired THEN Null ELSE cacheEntry.data

\* the facade's getData: () => baseStore.getState().getData()
facadeGetData(w, params) == getData(w, NoParams)

\* (variant: the persisted snapshot is not pruned)
partializeUnpruned(w) ==
    [enabled |-> w.enabled, error |-> w.error, lastFetchedAt |-> w.lastFetchedAt,
     queryCache |-> w.queryCache, queryKey |-> w.queryKey, status |-> w.status]

\* The function createBlendedPartialize returns, on the internal state: the
\* six persisted fields, the cache pruned with no key to preserve.
partialize(w) ==
    [enabled |-> w.enabled, error |-> w.error, lastFetchedAt |-> w.lastFetchedAt,
     queryCache |-> pruneCache(cfg.keepPreviousData, NullKey, w.queryKey, w.queryCache),
     queryKey |-> w.queryKey, status |-> w.status]

\* ------------------------------------------------- subscription manager
\* onSubscribe(enabled, isFirstSubscription, shouldThrottle)
onSubscribe(w, isEnabled, isFirstSubscription, shouldThrottle) ==
    IF ~isEnabled THEN w
    ELSE IF isFirstSubscription
    THEN LET currentParams == getCurrentResolvedParams
             w1 == [w EXCEPT !.queryKey = getQueryKey(currentParams)]
         IN IF isStale(w1, NoOverride)
            THEN Fetch(w1, currentParams, FALSE, FALSE, NoOverride, "subscribe")
            ELSE scheduleNextFetch(w1, currentParams, NoOverride)
    ELSE IF cfg.disableAutoRefetching /\ ~shouldThrottle
    THEN Fetch(w, NoParams, FALSE, FALSE, NoOverride, "subscribe")
    ELSE w

onLastUnsubscribe(w) ==
    LET w1 == ClearRefetchTimeout(w)
    IN IF cfg.abortInterruptedFetches THEN abortActiveFetch(w1) ELSE w1

\* subscriptionManager.subscribe()
SMSubscribe(w, shouldThrottle) ==
    LET w1 == [w EXCEPT !.subscriptionCount = @ + 1]
    IN onSubscribe(w1, w1.smEnabled, w1.subscriptionCount = 1, shouldThrottle)

\* the handle subscriptionManager.subscribe() returned
SMUnsubscribe(w) ==
    LET w1 == [w EXCEPT !.subscriptionCount = @ - 1]
    IN IF w1.subscriptionCount = 0 THEN onLastUnsubscribe(w1) ELSE w1

\* subscriptionManager.setEnabled(v)
SMSetEnabled(w, v) ==
    LET w1 == [w EXCEPT !.smEnabled = v]
    IN IF ~w.smEnabled /\ v /\ w.subscriptionCount > 0
       THEN onSubscribe(w1, TRUE, TRUE, FALSE)
       ELSE w1

\* ------------------------------------------------------ enabled listener
BoolName(b) == IF b THEN "true" ELSE "false"

\* handleSetEnabled(state, prevState), state being w0's store state
handleSetEnabled(w0, prevEnabled) ==
    IF w0.enabled # prevEnabled /\ w0.lastHandledEnabled # BoolName(w0.enabled)
    THEN LET w1 == SMSetEnabled([w0 EXCEPT !.lastHandledEnabled = BoolName(w0.enabled)],
                                w0.enabled)
             currentParams == getCurrentResolvedParams
         IN IF w0.enabled
            THEN IF w0.queryKey # w1.lastFetchKey \/ isStale(w1, NoOverride)
                 THEN Fetch(w1, currentParams, FALSE, FALSE, NoOverride, "enable")
                 ELSE scheduleNextFetch(w1, currentParams, NoOverride)
            ELSE ClearRefetchTimeout(w1)
    ELSE w0

\* setState of `enabled`: the listeners api.subscribe registered run handleSetEnabled
SetEnabledState(w, v) ==
    LET w1 == [w EXCEPT !.enabled = v]
    IN IF w.subscriptionCount > 0 THEN handleSetEnabled(w1, w.enabled) ELSE w1

\* ------------------------------------------------------------- reset()
\* `enabled` is a plain boolean (true), no reactive cell
NoCell == [attached |-> FALSE, value |-> TRUE, oldVal |-> TRUE]

\* initialData.enabled: typeof enabled === 'function' ? false : enabled
InitialEnabled == ~enabledCell.attached

\* after "if (oldVal) { setState({enabled: true}); subscriptionManager.setEnabled(true) }"
EnabledAtConstruction == IF enabledCell.attached THEN enabledCell.value ELSE InitialEnabled

\* set((state) => ({...state, ...initialData, queryKey: getQueryKey(current params)}))
SetInitialData(w) ==
    SetEnabledState([w EXCEPT !.error = NoError, !.lastFetchedAt = Null,
                              !.queryCache = << >>,
                              !.queryKey = getQueryKey(getCurrentResolvedParams),
                              !.status = "idle"],
                    InitialEnabled)

MarkStopped(w) ==
    [w EXCEPT !.fetches = [i \in DOMAIN @ |->
                              IF @[i].st = "pending" THEN [@[i] EXCEPT !.stopped = TRUE]
                              ELSE @[i]]]

reset(w) ==
    LET w1 == ClearRefetchTimeout(MarkStopped(w))
        w2 == IF cfg.abortInterruptedFetches THEN abortActiveFetch(w1) ELSE w1
        w3 == [w2 EXCEPT !.activeFetch = NoFetch, !.lastFetchKey = NullKey]
    IN SetInitialData(w3)

\* ------------------------------------------------------------- actions
\* the state createQueryStore returns the store in
InitEngine ==
    /\ calls = 0
    /\ now = 1
    /\ paramVal = 1
    /\ oldVal = 1
    /\ paramSubscribed = TRUE
    /\ enabled = EnabledAtConstruction
    /\ error = NoError
    /\ lastFetchedAt = Null
    /\ queryCache = << >>
    /\ queryKey = << >>
    /\ status = "idle"
    /\ smEnabled = EnabledAtConstruction
    /\ subscriptionCount = 0
    /\ lastHandledEnabled = "null"
    /\ activeAbortController = Null
    /\ activeFetch = NoFetch
    /\ activeRefetchTimeout = NoTimer
    /\ leakedTimers = {}
    /\ lastFetchKey = NullKey
    /\ fetches = << >>
    /\ onErrorLog = << >>
    /\ ret = NoRet
    /\ done = NoDone

\* no query key computed yet
Unhashed == <<"unhashed">>

NoProbe == [a |-> << >>, b |-> << >>, keyA |-> Unhashed, keyB |-> Unhashed]

InitState == enabledCell = NoCell /\ InitEngine /\ probe = NoProbe

Init == cfg \in Configs /\ InitState

\* a step of the environment: a fetcher settles, a timer fires
Frame == UNCHANGED <<cfg, calls, now, paramVal, oldVal, paramSubscribed, enabledCell, probe>>

\* a call of the store's API
Call ==
    /\ calls < MaxCalls
    /\ calls' = calls + 1
    /\ UNCHANGED <<cfg, now, enabledCell, probe>>

CallFrame == Call /\ UNCHANGED <<paramVal, oldVal, paramSubscribed>>

\* the abort continuations are microtasks: timers, fetcher settlements and the
\* clock wait for them
NoMicrotask == \A i \in DOMAIN fetches : fetches[i].st # "aborted"

ParamArgs == {NoParams} \cup [id : ExplicitIds]

\* the fetcher echoes the id it was called with
FetcherResults(params) == {params.id}

\* {force, skipStoreUpdates, staleTime}; staleTime is only given to plain fetches
FetchOptionSets ==
    {o \in [force : BOOLEAN, skip : BOOLEAN, stale : StaleOverrides] :
        o.stale # NoOverride => ~o.force /\ ~o.skip}

\* store.fetch(params, {force, skipStoreUpdates, staleTime})
FetchCall(arg, options) ==
    /\ CallFrame
    /\ Apply(Fetch(World, arg, options.force, options.skip, options.stale, "call"))

\* the fetcher's promise resolves with raw
FetchSucceeded(fid, raw, thrower) ==
    /\ NoMicrotask
    /\ fetches[fid].st = "pending"
    /\ thrower \in Throwers
    /\ Apply(SuccessPath(World, fid, raw, thrower))
    /\ Frame

\* the fetcher's promise rejects with err
FetchFailed(fid, err, onErrorThrows) ==
    /\ NoMicrotask
    /\ fetches[fid].st = "pending"
    /\ Apply(ErrorPath(World, fid, err, onErrorThrows))
    /\ Frame

\* the continuation of a fetch whose controller was aborted
FetchAborted(fid) ==
    /\ fetches[fid].st = "aborted"
    /\ Apply(ErrorPath(World, fid, ABORT_ERROR, FALSE))
    /\ Frame

\* (variant: the callback fetches without looking at the subscription manager)
TimerCallbackUnguarded(w, t) == Fetch(w, t.params, TRUE, FALSE, NoOverride, t.kind)

\* the callback of both setTimeout calls
TimerCallback(w, t) ==
    IF w.smEnabled /\ w.subscriptionCount > 0
    THEN Fetch(w, t.params, TRUE, FALSE, NoOverride, t.kind)
    ELSE w

TimerFires ==
    /\ NoMicrotask
    /\ IsPending(activeRefetchTimeout)
    /\ now >= activeRefetchTimeout.due
    /\ Apply(TimerCallback([World EXCEPT !.activeRefetchTimeout.fired = TRUE],
                           activeRefetchTimeout))
    /\ Frame

LeakedTimerFires(t) ==
    /\ NoMicrotask
    /\ now >= t.due
    /\ Apply(TimerCallback([World EXCEPT !.leakedTimers = @ \ {t}], t))
    /\ Frame

Subscribe(shouldThrottle) ==
    /\ subscriptionCount < MaxSubscribers
    /\ Apply(SMSubscribe(World, shouldThrottle))
    /\ CallFrame

Unsubscribe ==
    /\ subscriptionCount > 0
    /\ Apply(SMUnsubscribe(World))
    /\ CallFrame

\* setState({enabled: v})
SetEnabled(v) ==
    /\ Apply(SetEnabledState(World, v))
    /\ CallFrame

\* getState().reset()
Reset ==
    /\ Apply(reset(World))
    /\ CallFrame

\* the reactive parameter `id` takes the value v
ParamChange(v) ==
    /\ paramVal' = v
    /\ IF paramSubscribed /\ v # oldVal
       THEN /\ oldVal' = v
            /\ LET newParams == [id |-> v]
                   w1 == IF ~cfg.keepPreviousData
                         THEN [World EXCEPT !.queryKey = getQueryKey(newParams)]
                         ELSE World
               IN Apply(Fetch(w1, newParams, FALSE, FALSE, NoOverride, "param"))
       ELSE /\ oldVal' = oldVal
            /\ Apply(World)
    /\ Call
    /\ UNCHANGED paramSubscribed

\* Date.now() advances, up to the bound
Advance(bound) ==
    /\ NoMicrotask
    /\ now < bound
    /\ now' = now + 1
    /\ Apply(World)
    /\ UNCHANGED <<cfg, calls, paramVal, oldVal, paramSubscribed, enabledCell, probe>>

Tick == Advance(MaxTime)

Next ==
    \/ \E arg \in ParamArgs, options \in FetchOptionSets : FetchCall(arg, options)
    \/ \E fid \in DOMAIN fetches, thrower \in {"none", "onFetched", "transform", "setData"} :
            \E raw \in FetcherResults(fetches[fid].params) : FetchSucceeded(fid, raw, thrower)
    \/ \E fid \in DOMAIN fetches, err \in FetcherErrors, onErrorThrows \in BOOLEAN :
            FetchFailed(fid, err, onErrorThrows)
    \/ \E fid \in DOMAIN fetches : FetchAborted(fid)
    \/ TimerFires
    \/ \E t \in leakedTimers : LeakedTimerFires(t)
    \/ \E shouldThrottle \in BOOLEAN : Subscribe(shouldThrottle)
    \/ Unsubscribe
    \/ \E v \in BOOLEAN : SetEnabled(v)
    \/ Reset
    \/ \E v \in IdVals : ParamChange(v)
    \/ Tick

Spec == Init /\ [][Next]_vars

\* ------------------------------------------------- the retry scenario (S3)
\* One subscriber, a fetcher that always throws Error("x"), callbacks that
\* do not throw; subscribe and fetch(), in either order, before the first
\* failure, and nothing but the clock and the timers afterwards.
RetryConfigs == {c \in AllConfigs : ~c.hasSetData /\ ~c.hasTransform}

InitRetry == cfg \in RetryConfigs /\ InitState

PlainFetch == [force |-> FALSE, skip |-> FALSE, stale |-> NoOverride]

RetryFetchCall ==
    /\ Len(fetches) <= 1
    /\ status \in {"idle", "loading"}
    /\ FetchCall(NoParams, PlainFetch)

RetryFetchFailed(fid) ==
    /\ subscriptionCount > 0
    /\ FetchFailed(fid, "x", FALSE)

RetryTick == Advance(RetryMaxTime)

NextRetry ==
    \/ Subscribe(FALSE)
    \/ RetryFetchCall
    \/ \E fid \in DOMAIN fetches : RetryFetchFailed(fid)
    \/ TimerFires
    \/ RetryTick

SpecRetry == InitRetry /\ [][NextRetry]_vars

\* ----------------------------------------------------- the cache scenario
\* No subscriber and no timer: fetches of the two keys, parameter changes and
\* reads of the data, over a clock on which cache entries expire.
CacheConfigs ==
    {c \in AllConfigs :
        /\ ~c.hasSetData /\ ~c.hasTransform
        /\ c.disableAutoRefetching
        /\ c.maxRetries = 0
        /\ ~(c.disableCache /\ c.keepPreviousData)}

InitCache == cfg \in CacheConfigs /\ InitState

\* store.getData(params) (facade) or store.getState().getData(params)
GetData(arg, onFacade) ==
    /\ Apply([World EXCEPT !.ret = [kind |-> "getData",
                                    val |-> IF onFacade THEN facadeGetData(World, arg)
                                            ELSE getData(World, arg)]])
    /\ Frame

CacheTick == Advance(CacheMaxTime)

NextCache ==
    \/ \E arg \in ParamArgs, force \in BOOLEAN :
            FetchCall(arg, [force |-> force, skip |-> FALSE, stale |-> NoOverride])
    \/ \E fid \in DOMAIN fetches : FetchSucceeded(fid, fetches[fid].params.id, "none")
    \/ \E fid \in DOMAIN fetches : FetchFailed(fid, "x", FALSE)
    \/ \E fid \in DOMAIN fetches : FetchAborted(fid)
    \/ \E v \in IdVals : ParamChange(v)
    \/ \E arg \in ParamArgs, onFacade \in BOOLEAN : GetData(arg, onFacade)
    \/ CacheTick

SpecCache == InitCache /\ [][NextCache]_vars

\* ------------------------------------------------------ reactive scenario
\* A store whose `enabled` is a reactive cell and whose parameter is reactive;
\* fetches are started by the engine only (first subscription, parameter
\* change, enabling), never for explicit parameters; no timers.
ReactiveConfigs ==
    {c \in AllConfigs : /\ ~c.hasSetData /\ ~c.hasTransform /\ ~c.disableCache
                        /\ c.disableAutoRefetching /\ c.maxRetries = 0}

InitReactive ==
    /\ cfg \in ReactiveConfigs
    /\ enabledCell \in {[attached |-> TRUE, value |-> v, oldVal |-> v] : v \in BOOLEAN}
    /\ InitEngine
    /\ probe = NoProbe

\* the reactive `enabled` cell takes the value v and notifies its listener
EnabledCellChange(v) ==
    /\ enabledCell.attached
    /\ calls < MaxCalls
    /\ calls' = calls + 1
    /\ IF paramSubscribed /\ v # enabledCell.oldVal
       THEN /\ enabledCell' = [enabledCell EXCEPT !.value = v, !.oldVal = v]
            /\ Apply(SetEnabledState(World, v))
       ELSE /\ enabledCell' = [enabledCell EXCEPT !.value = v]
            /\ Apply(World)
    /\ UNCHANGED <<cfg, now, paramVal, oldVal, paramSubscribed, probe>>

\* the facade's reset(): the listeners of the reactive values are removed, then
\* getState().reset(), then setState of the initial data
FacadeReset ==
    /\ paramSubscribed' = FALSE
    /\ Apply(SetInitialData(reset(World)))
    /\ Call
    /\ UNCHANGED <<paramVal, oldVal>>

NextReactive ==
    \/ \E shouldThrottle \in BOOLEAN : Subscribe(shouldThrottle)
    \/ Unsubscribe
    \/ \E v \in IdVals : ParamChange(v)
    \/ \E v \in BOOLEAN : EnabledCellChange(v)
    \/ \E v \in BOOLEAN : SetEnabled(v)
    \/ FacadeReset
    \/ \E fid \in DOMAIN fetches : FetchSucceeded(fid, fetches[fid].params.id, "none")
    \/ \E fid \in DOMAIN fetches : FetchFailed(fid, "x", FALSE)
    \/ \E fid \in DOMAIN fetches : FetchAborted(fid)

SpecReactive == InitReactive /\ [][NextReactive]_vars

\* --------------------------------------------------- rehydration scenario
\* A store created over a persisted projection: the store state starts as the
\* projection an earlier run wrote (never fetched; a success or an exhausted
\* failure for one key), then the engine runs as usual.
RehydrateConfigs ==
    {c \in AllConfigs : /\ ~c.hasSetData /\ ~c.hasTransform /\ ~c.keepPreviousData
                        /\ c.abortInterruptedFetches /\ ~c.disableAutoRefetching
                        /\ c.maxRetries = 0}

PersistedKeys == {getQueryKey([id |-> v]) : v \in IdVals}

PersistedStates ==
    LET fetched(k) == [cacheTime |-> cfg.cacheTime, data |-> k[1],
                       errorInfo |-> NoErrorInfo, lastFetchedAt |-> 1]
        failed(k) == [cacheTime |-> cfg.cacheTime, data |-> Null,
                      errorInfo |-> [error |-> "x", lastFailedAt |-> 1,
                                     retryCount |-> cfg.maxRetries],
                      lastFetchedAt |-> Null]
    IN {[enabled |-> TRUE, error |-> NoError, lastFetchedAt |-> Null,
         queryCache |-> << >>, queryKey |-> << >>, status |-> "idle"]}
       \cup {[enabled |-> TRUE, error |-> NoError, lastFetchedAt |-> 1,
               queryCache |-> IF cfg.disableCache THEN << >> ELSE k :> fetched(k),
               queryKey |-> k, status |-> "success"] : k \in PersistedKeys}
       \cup {[enabled |-> TRUE, error |-> "x", lastFetchedAt |-> Null,
               queryCache |-> k :> failed(k),
               queryKey |-> k, status |-> "error"] : k \in PersistedKeys}

\* (variant: the rehydrated state is not looked at)
lastFetchKeyUntouched(queryKey0, error0) == NullKey

\* const { error, queryKey } = getState(); if (queryKey && !error) lastFetchKey = queryKey
lastFetchKeyAtCreation(queryKey0, error0) ==
    IF queryKey0 # << >> /\ error0 = NoError THEN queryKey0 ELSE NullKey

InitRehydrated ==
    /\ cfg \in RehydrateConfigs
    /\ enabledCell = NoCell
    /\ probe = NoProbe
    /\ calls = 0
    /\ now = 1
    /\ paramVal = 1
    /\ oldVal = 1
    /\ paramSubscribed = TRUE
    /\ \E persisted \in PersistedStates :
           /\ enabled = persisted.enabled
           /\ error = persisted.error
           /\ lastFetchedAt = persisted.lastFetchedAt
           /\ queryCache = persisted.queryCache
           /\ queryKey = persisted.queryKey
           /\ status = persisted.status
           /\ lastFetchKey = lastFetchKeyAtCreation(persisted.queryKey, persisted.error)
    /\ smEnabled = InitialEnabled
    /\ subscriptionCount = 0
    /\ lastHandledEnabled = "null"
    /\ activeAbortController = Null
    /\ activeFetch = NoFetch
    /\ activeRefetchTimeout = NoTimer
    /\ leakedTimers = {}
    /\ fetches = << >>
    /\ onErrorLog = << >>
    /\ ret = NoRet
    /\ done = NoDone

NextRehydrated ==
    \/ \E arg \in ParamArgs : FetchCall(arg, PlainFetch)
    \/ \E fid \in DOMAIN fetches : FetchSucceeded(fid, fetches[fid].params.id, "none")
    \/ \E fid \in DOMAIN fetches : FetchFailed(fid, "x", FALSE)
    \/ \E fid \in DOMAIN fetches : FetchAborted(fid)
    \/ TimerFires
    \/ \E shouldThrottle \in BOOLEAN : Subscribe(shouldThrottle)
    \/ Unsubscribe
    \/ Tick

SpecRehydrate == InitRehydrated /\ [][NextRehydrated]_vars

\* ------------------------------------------------------ query-key scenario
\* getQueryKey applied to two parameter maps drawn from ParamMaps.
InitKey ==
    /\ cfg \in {c \in Configs : Deviations(c) = 0}
    /\ enabledCell = NoCell
    /\ InitEngine
    /\ probe \in [a : ParamMaps, b : ParamMaps, keyA : {Unhashed}, keyB : {Unhashed}]

GetQueryKey(side) ==
    /\ IF side = "a"
       THEN probe.keyA = Unhashed /\ probe' = [probe EXCEPT !.keyA = getQueryKeyOfMap(probe.a)]
       ELSE probe.keyB = Unhashed /\ probe' = [probe EXCEPT !.keyB = getQueryKeyOfMap(probe.b)]
    /\ UNCHANGED engineVars

NextKey == \E side \in {"a", "b"} : GetQueryKey(side)

SpecKey == InitKey /\ [][NextKey]_vars

\* ================================================================ claims
\* the key a call fetch(arg, ...) is for
KeyOfArg(arg) == <<IF arg = NoParams THEN paramVal ELSE arg.id>>

\* fetch operation fid awaits its fetcher and was not aborted
InFlight(fid) == fetches[fid].st = "pending"

\* an in-flight fetch that updates the store
InFlightNonSkip(fid) == InFlight(fid) /\ ~fetches[fid].skip

\* ---------------------------------------------------------------- C1
\* C1: whenever a fetch for key K is in flight and status is loading, a
\* further fetch() for K without force returns the in-flight fetch's promise
\* and does not invoke the fetcher again.  (Stated for an enabled engine with
\* abortInterruptedFetches on, where it fails already.)
C1_InFlightDedup ==
    [][\A arg \in ParamArgs, options \in FetchOptionSets :
        (/\ ~options.force
         /\ smEnabled
         /\ cfg.abortInterruptedFetches
         /\ status = "loading"
         /\ \E fid \in DOMAIN fetches :
                InFlightNonSkip(fid) /\ fetches[fid].key = KeyOfArg(arg)
         /\ FetchCall(arg, options))
        => /\ Len(fetches') = Len(fetches)
           /\ ret'.kind = "dedup"
           /\ InFlightNonSkip(ret'.val)
           /\ fetches[ret'.val].key = KeyOfArg(arg)]_vars

\* ---------------------------------------------------------------- C2
\* C2 as stated: in every execution, with either value of
\* abortInterruptedFetches, at most one non-skip fetch is in flight per key.
C2_OneInFlightPerKey ==
    \A i, j \in DOMAIN fetches :
        (InFlightNonSkip(i) /\ InFlightNonSkip(j) /\ fetches[i].key = fetches[j].key)
            => i = j

\* C2, amended: with abortInterruptedFetches on, at most one non-skip fetch
\* that was not aborted is in flight per key.
C2_OneInFlightPerKeyWithAbort ==
    cfg.abortInterruptedFetches => C2_OneInFlightPerKey

\* a forced fetch for the key of an in-flight fetch has aborted it
C2_Witness ==
    /\ cfg.abortInterruptedFetches
    /\ \E i, j \in DOMAIN fetches :
        /\ fetches[i].st = "aborted" /\ ~fetches[i].skip
        /\ InFlightNonSkip(j)
        /\ fetches[i].key = fetches[j].key

\* ---------------------------------------------------------------- C3
\* C3: the promise fetch() returns never rejects, whatever a user callback
\* does, and a failure of a fetch that updates the store ends in status error.
C3_NeverRejects ==
    /\ done.out # "rejected"
    /\ (done.out # "none" /\ ~done.skip /\ done.err \notin {NoError, ABORT_ERROR, NativeAbortError})
           => status = "error"

\* ---------------------------------------------------------------- C4
\* the claim's freshness: the last successful fetch of the key is younger than
\* the effective staleTime, and the entry has no errorInfo or its retryCount
\* reached maxRetries
C4_LastFetchedAt(key) ==
    IF cfg.disableCache
    THEN IF lastFetchKey = key THEN lastFetchedAt ELSE Null
    ELSE IF key \in DOMAIN queryCache THEN queryCache[key].lastFetchedAt ELSE Null

C4_Fresh(key, stale) ==
    /\ C4_LastFetchedAt(key) # Null
    /\ now - C4_LastFetchedAt(key) < (IF stale # NoOverride THEN stale ELSE cfg.staleTime)
    /\ key \in DOMAIN queryCache
           => \/ queryCache[key].errorInfo = NoErrorInfo
              \/ queryCache[key].errorInfo.retryCount >= cfg.maxRetries

C4_CachedData(key) == IF key \in DOMAIN queryCache THEN queryCache[key].data ELSE Null

\* the call returned the cached data (or null) at once and touched nothing
C4_ReturnsCached(arg) ==
    /\ Len(fetches') = Len(fetches)
    /\ \/ ret' = [kind |-> "data", val |-> C4_CachedData(KeyOfArg(arg))]
       \/ ret' = [kind |-> "null", val |-> Null]
    /\ UNCHANGED <<status, error, queryCache>>

\* C4 as stated: a fetch() without force for a key whose cache is fresh
\* returns the cached data (or null) without invoking the fetcher and without
\* changing status, error or queryCache.
C4_FreshCacheHit ==
    [][\A arg \in ParamArgs, options \in FetchOptionSets :
        (/\ ~options.force
         /\ C4_Fresh(KeyOfArg(arg), options.stale)
         /\ FetchCall(arg, options))
        => C4_ReturnsCached(arg)]_vars

\* C4, amended: ... unless a fetch for that key is in flight with status
\* loading, in which case the call is deduplicated onto it; the cached data is
\* returned when the engine is enabled, null when it is disabled.
C4_FreshCacheHitUnlessInFlight ==
    [][\A arg \in ParamArgs, options \in FetchOptionSets :
        (/\ ~options.force
         /\ C4_Fresh(KeyOfArg(arg), options.stale)
         /\ ~(activeFetch.key = KeyOfArg(arg) /\ status = "loading")
         /\ FetchCall(arg, options))
        => /\ C4_ReturnsCached(arg)
           /\ ret'.kind = (IF smEnabled THEN "data" ELSE "null")]_vars

\* a call was answered from the cache although the last fetch of the key failed
\* (its retries exhausted)
C4_Witness ==
    /\ ret.kind = "data"
    /\ ret.val # Null
    /\ status = "error"

Quiescent ==
    /\ subscriptionCount = 1
    /\ fetches # << >>
    /\ \A fid \in DOMAIN fetches : fetches[fid].st = "settled"
    /\ ~IsPending(activeRefetchTimeout)
    /\ leakedTimers = {}

RetryCountOf(key) == IF key \in DOMAIN queryCache THEN queryCache[key].errorInfo.retryCount
                     ELSE 0

\* C6: in every configuration (disableCache included) a fetcher that keeps
\* failing is retried at most maxRetries times: the fetcher runs at most
\* 1 + maxRetries times, and the engine rests with status error and
\* errorInfo.retryCount = maxRetries.
C6_RetriesBounded ==
    /\ Len(fetches) <= 1 + cfg.maxRetries
    /\ Quiescent => (status = "error" /\ RetryCountOf(<<paramVal>>) = cfg.maxRetries)

\* ---------------------------------------------------------------- C7
\* scenario S3 has run to its end: maxRetries = 2, a finite retryDelay, the
\* cache on, one subscriber, the fetcher threw Error("x") every time
S3Ended == cfg.maxRetries = 2 /\ ~cfg.disableCache /\ Quiescent

S3EndState ==
    /\ status = "error"
    /\ error = "x"
    /\ RetryCountOf(<<paramVal>>) = 2

\* C7 as stated: S3 ends with status error, error "x", errorInfo.retryCount 2,
\* and onError called exactly twice, with retry counts 0 then 1.
C7_RetryExhaustion ==
    S3Ended => (S3EndState /\ onErrorLog = <<0, 1>>)

\* C7, amended: ... and onError called exactly three times, once for every
\* failed attempt, with retry counts 0, 1 and 2.
C7_RetryExhaustionThreeCalls ==
    S3Ended => (S3EndState /\ onErrorLog = <<0, 1, 2>>)

C7_Witness == S3Ended /\ Len(fetches) = 3 /\ now = 3

\* ---------------------------------------------------------------- C8
\* the store state and the timers
C8_Untouched ==
    UNCHANGED <<status, error, lastFetchedAt, queryCache, queryKey, onErrorLog,
                activeRefetchTimeout, leakedTimers>>

\* C8: a fetch that ends with the ABORT_ERROR sentinel or an error named
\* AbortError resolves to null without changing status, error or queryCache,
\* without calling onError and without scheduling a retry.
C8_AbortIsNoOp ==
    [][(done'.out # "none" /\ done'.err \in {ABORT_ERROR, NativeAbortError})
        => (done'.out = "null" /\ C8_Untouched)]_vars

\* the fetcher itself rejected with an AbortError
C8_Witness ==
    /\ done.out = "null"
    /\ done.err = NativeAbortError
    /\ ~done.skip
    /\ status = "loading"

\* ---------------------------------------------------------------- C9
\* the parameter changes to v, a new key, while fetches for other keys are in
\* flight: they are aborted
C9_OldFetchAborted(v) ==
    \A fid \in DOMAIN fetches :
        (InFlightNonSkip(fid) /\ fetches[fid].key # <<v>>) => fetches'[fid].st = "aborted"

\* the continuation of an aborted fetch resolves to null and writes nothing
C9_AbortedNeverWritten ==
    \A fid \in DOMAIN fetches :
        (fetches[fid].st = "aborted" /\ fetches'[fid].st = "settled")
            => /\ done'.fid = fid /\ done'.out = "null"
               /\ UNCHANGED <<status, error, lastFetchedAt, queryCache, queryKey>>

\* the fetch the parameter change started succeeds: the state reflects it
C9_NewResultReflected ==
    \A fid \in DOMAIN fetches :
        (/\ InFlightNonSkip(fid) /\ fetches[fid].src = "param"
         /\ done'.fid = fid /\ done'.out = "data")
        => /\ status' = "success"
           /\ error' = NoError
           /\ lastFetchedAt' = now
           /\ fetches[fid].key = <<paramVal>> => queryKey' = fetches[fid].key
           /\ (~cfg.disableCache /\ ~cfg.hasSetData)
                  => /\ fetches[fid].key \in DOMAIN queryCache'
                     /\ queryCache'[fetches[fid].key].data = done'.val

\* C9 as stated: with abortInterruptedFetches on, a parameter change to a new
\* key B while a fetch for the old key A is in flight aborts A; A resolves to
\* null and is never written; once B's fetch succeeds the state reflects B.
C9_ParamChangeAborts ==
    [][cfg.abortInterruptedFetches =>
        /\ \A v \in IdVals :
              (paramSubscribed /\ v # oldVal /\ ParamChange(v)) => C9_OldFetchAborted(v)
        /\ C9_AbortedNeverWritten
        /\ C9_NewResultReflected]_vars

\* C9, amended: ... a parameter change to a new key B on an enabled engine ...
C9_ParamChangeAbortsWhenEnabled ==
    [][cfg.abortInterruptedFetches =>
        /\ \A v \in IdVals :
              (paramSubscribed /\ v # oldVal /\ smEnabled /\ ParamChange(v))
                  => C9_OldFetchAborted(v)
        /\ C9_AbortedNeverWritten
        /\ C9_NewResultReflected]_vars

\* A was aborted by the parameter change and has resolved to null; B is in flight
C9_Witness ==
    /\ cfg.abortInterruptedFetches
    /\ done.out = "null" /\ done.err = ABORT_ERROR /\ done.key = <<1>>
    /\ paramVal = 2
    /\ \E fid \in DOMAIN fetches :
           InFlightNonSkip(fid) /\ fetches[fid].src = "param" /\ fetches[fid].key = <<2>>

\* --------------------------------------------------------------- C10
\* C10: reset() is a hard stop with or without abortInterruptedFetches: the
\* later completion of a fetch that was in flight when reset() ran changes
\* neither the store state nor the timers.
C10_ResetIsHardStop ==
    [][(done'.out # "none" /\ done'.stopped)
        => UNCHANGED <<status, error, lastFetchedAt, queryCache, queryKey,
                       activeRefetchTimeout, leakedTimers>>]_vars

\* --------------------------------------------------------------- C11
\* the timers that will still fire
PendingTimers ==
    (IF IsPending(activeRefetchTimeout) THEN {activeRefetchTimeout} ELSE {}) \cup leakedTimers

\* C11: immediately after reset(), from any reachable state: status idle,
\* error null, lastFetchedAt null, queryCache empty, queryKey the key of the
\* current parameters, no refetch or retry timer pending, the active fetch
\* aborted (when abortInterruptedFetches), activeFetch and lastFetchKey cleared.
C11_ResetPostState ==
    [][(calls' = calls + 1 /\ Reset)
        => /\ status' = "idle"
           /\ error' = NoError
           /\ lastFetchedAt' = Null
           /\ queryCache' = << >>
           /\ queryKey' = <<paramVal>>
           /\ PendingTimers' = {}
           /\ cfg.abortInterruptedFetches =>
                  \A fid \in DOMAIN fetches :
                      InFlightNonSkip(fid) => fetches'[fid].st = "aborted"
           /\ activeFetch' = NoFetch
           /\ lastFetchKey' = NullKey]_vars

\* --------------------------------------------------------------- C12
\* C12: setting enabled from true to false is a hard stop: the pending
\* refetch/retry timer is cancelled and the in-flight fetch is aborted when
\* abortInterruptedFetches is configured.  (Stated for a subscribed store,
\* whose enabled listener is registered.)
C12_DisableIsHardStop ==
    [][(enabled /\ subscriptionCount > 0 /\ calls' = calls + 1 /\ SetEnabled(FALSE))
        => /\ PendingTimers' = {}
           /\ cfg.abortInterruptedFetches =>
                  \A fid \in DOMAIN fetches :
                      InFlightNonSkip(fid) => fetches'[fid].st = "aborted"]_vars

\* --------------------------------------------------------------- C14
\* the fetcher invocations a timer callback made
TimerSources == {"refetch", "retry"}

C13_Auto(en, smEn, count) == en /\ smEn /\ count > 0 /\ ~cfg.disableAutoRefetching

C13_StaleTimeOf(f) == IF f.stale # NoOverride THEN f.stale ELSE cfg.staleTime

\* the timer t fires in this step
C13_FiresNow(t) ==
    \/ t = activeRefetchTimeout /\ TimerFires
    \/ t \in leakedTimers /\ LeakedTimerFires(t)

\* a successful fetch schedules the refetch of its parameters, staleTime from now
C13_Scheduled ==
    [][(C13_Auto(enabled, smEnabled, subscriptionCount) /\ done'.out = "data" /\ ~done'.skip)
        => LET f == fetches[done'.fid]
           IN activeRefetchTimeout' = [kind |-> "refetch", due |-> now + C13_StaleTimeOf(f),
                                       params |-> f.params, fired |-> FALSE,
                                       auto |-> TRUE]]_vars

\* when the refetch timer fires, a forced fetch of its parameters starts
C13_Refetches ==
    [][\A t \in PendingTimers :
          (t.kind = "refetch" /\ C13_Auto(enabled, smEnabled, subscriptionCount) /\ C13_FiresNow(t))
          => /\ Len(fetches') = Len(fetches) + 1
             /\ LET g == fetches'[Len(fetches')]
                IN g.params = t.params /\ g.src = "refetch" /\ g.st = "pending" /\ ~g.skip]_vars

\* the scheduled refetch of P stays scheduled until it fires
C13_KeptIn(otherSuccess) ==
    \A t \in PendingTimers :
        (/\ t.kind = "refetch"
         /\ t.auto
         /\ C13_Auto(enabled, smEnabled, subscriptionCount)
         /\ C13_Auto(enabled', smEnabled', subscriptionCount')
         /\ ~otherSuccess
         /\ ~(calls' = calls + 1 /\ Reset)
         /\ ~C13_FiresNow(t))
        => \E u \in PendingTimers' : u.kind = "refetch" /\ u.params = t.params

\* C13: (automatic stale refetch) with a subscriber, the engine enabled and
\* auto-refetching on, every successful fetch schedules a forced refetch of
\* the same parameters, which stays scheduled until staleTime has elapsed and
\* then runs, as long as the engine stays enabled and subscribed and is not
\* reset.
C13_StaleRefetch ==
    /\ C13_Scheduled
    /\ C13_Refetches
    /\ [][C13_KeptIn(FALSE)]_vars

\* C13 (amended): ... unless a later fetch completed successfully meanwhile:
\* the engine has one timer, which that fetch reschedules for its own parameters.
C13_StaleRefetchOfLatest ==
    /\ C13_Scheduled
    /\ C13_Refetches
    /\ [][C13_KeptIn(done'.out = "data" /\ ~done'.skip)]_vars

\* the automatic refetch of an earlier successful fetch is in flight
C13_Witness ==
    /\ C13_Auto(enabled, smEnabled, subscriptionCount)
    /\ lastFetchedAt # Null
    /\ \E fid \in DOMAIN fetches :
          /\ InFlight(fid)
          /\ fetches[fid].src = "refetch"
          /\ now >= lastFetchedAt + cfg.staleTime

\* --------------------------------------------------------------- C17
\* what a parallel probe must leave alone
C17_ProbeFrame ==
    /\ UNCHANGED storeVars
    /\ UNCHANGED <<activeAbortController, activeRefetchTimeout, leakedTimers>>
    /\ \A fid \in DOMAIN fetches : fetches'[fid].st = "aborted" => fetches[fid].st = "aborted"

\* C17: a fetch called with skipStoreUpdates is a parallel probe: its call
\* (cache hit included) and its success or failure change no store state,
\* abort and replace no active fetch, return no other fetch's in-flight
\* promise, and schedule or cancel no timer.
C17_SkipIsParallelProbe ==
    /\ [][\A arg \in ParamArgs, options \in FetchOptionSets :
              (options.skip /\ calls' = calls + 1 /\ FetchCall(arg, options))
              => C17_ProbeFrame /\ activeFetch' = activeFetch /\ ret'.kind # "dedup"]_vars
    /\ [][(done'.out # "none" /\ done'.skip)
              => C17_ProbeFrame /\ activeFetch' = activeFetch]_vars

\* --------------------------------------------------------------- C18
\* C18: in every reachable state, status == loading implies that activeFetch
\* exists and a fetch of its key is under way.  (reset() leaves status idle,
\* or loading with the activeFetch of the fetch it started, so its exception
\* is not needed.)
C18_LoadingHasActiveFetch ==
    status = "loading" =>
        /\ activeFetch # NoFetch
        /\ \E fid \in DOMAIN fetches :
              ~fetches[fid].skip /\ fetches[fid].st # "settled" /\ fetches[fid].key = activeFetch.key

\* --------------------------------------------------------------- C19
\* the fetcher of the model resolves with the id it was called with, and the
\* configured transform maps (raw, params) to 10 * params.id + raw
C19_ExpectedData(params) ==
    IF cfg.hasSetData THEN Null
    ELSE IF cfg.hasTransform THEN 11 * params.id
    ELSE params.id

\* C19: after a successful non-skipStoreUpdates fetch for key K with caching
\* enabled, queryCache[K].data is transform(raw, params) (raw without a
\* transform, null with setData), queryCache[K].errorInfo is null,
\* queryCache[K].lastFetchedAt is the completion time, status is success and
\* error is null.
C19_SuccessEntry ==
    [][(~cfg.disableCache /\ done'.out = "data" /\ ~done'.skip)
        => LET f == fetches[done'.fid]
           IN /\ f.key \in DOMAIN queryCache'
              /\ queryCache'[f.key].data = C19_ExpectedData(f.params)
              /\ queryCache'[f.key].errorInfo = NoErrorInfo
              /\ queryCache'[f.key].lastFetchedAt = now
              /\ status' = "success"
              /\ error' = NoError]_vars

\* a fetch has just succeeded with a transform configured and no setData
C19_Witness ==
    /\ cfg.hasTransform /\ ~cfg.hasSetData /\ ~cfg.disableCache
    /\ done.out = "data" /\ ~done.skip
    /\ done.key \in DOMAIN queryCache
    /\ queryCache[done.key].data = done.val
    /\ done.val > 10

\* --------------------------------------------------------------- C15
\* what getData() returns
CurrentData == getData(World, NoParams)

DataOf(cache, key) == IF key \in DOMAIN cache THEN cache[key].data ELSE Null

\* the parameters changed from the key shown (A = queryKey, data cached) to
\* key B, and the fetch fid that the change started for B is in flight
C15_Window(fid) ==
    /\ cfg.keepPreviousData
    /\ InFlight(fid)
    /\ fetches[fid].src = "param"
    /\ fetches[fid].key = <<paramVal>>
    /\ queryKey # fetches[fid].key
    /\ DataOf(queryCache, queryKey) # Null

\* a fetch for B settles in this step (the one the change started, or
\* another one for the same key)
C15_Settles(fid) == done'.out # "none" /\ ~done'.skip /\ done'.key = fetches[fid].key

\* a fetch for B succeeds: B's data is shown, A stays cached unless expired
C15_OnSuccess(fid) ==
    /\ CurrentData' = done'.val
    /\ fetches[fid].key \in DOMAIN queryCache'
    /\ now - queryCache[queryKey].lastFetchedAt <= queryCache[queryKey].cacheTime
           => /\ queryKey \in DOMAIN queryCache'
              /\ queryCache'[queryKey] = queryCache[queryKey]

\* C15: with keepPreviousData, after the parameters change from key A (data
\* cached) to key B, getData() returns A's data at every moment until a fetch
\* for B has succeeded, and B's data from then on; queryCache then holds both
\* A and B until they expire.
C15_KeepPreviousData ==
    [][\A fid \in DOMAIN fetches :
          C15_Window(fid)
          => /\ CurrentData = DataOf(queryCache, queryKey)
             /\ IF C15_Settles(fid) /\ done'.out = "data"
                THEN C15_OnSuccess(fid)
                ELSE CurrentData' = CurrentData]_vars

\* --------------------------------------------------------------- C16
\* getData(arg) as stated: the entry read, and what is returned of it
C16_Expected(arg) ==
    LET key == IF arg # NoParams THEN <<arg.id>> ELSE queryKey
    IN IF cfg.disableCache \/ key \notin DOMAIN queryCache THEN Null
       ELSE IF cfg.keepPreviousData THEN queryCache[key].data
       ELSE IF queryCache[key].lastFetchedAt = Null
               \/ now - queryCache[key].lastFetchedAt <= queryCache[key].cacheTime
       THEN queryCache[key].data
       ELSE Null

\* C16: getData(params?) reads the entry of the key of params when params is
\* given and of state.queryKey otherwise, and returns null when disableCache,
\* the entry's data whatever its age with keepPreviousData, and otherwise the
\* entry's data only while now - lastFetchedAt <= cacheTime; on the facade as
\* on the state.
C16_GetData ==
    [][\A arg \in ParamArgs, onFacade \in BOOLEAN :
          GetData(arg, onFacade) => ret'.val = C16_Expected(arg)]_vars

\* --------------------------------------------------------------- C20
C20_Stamp(entry) ==
    IF entry.lastFetchedAt # Null THEN entry.lastFetchedAt ELSE entry.errorInfo.lastFailedAt

\* C20: after every pruning pass (each successful cache write with caching
\* enabled and a finite cacheTime), every surviving entry other than the
\* current key, and other than the previous key with keepPreviousData,
\* satisfies now - (lastFetchedAt, else lastFailedAt) <= its cacheTime.
C20_PrunedWithinCacheTime ==
    [][(~cfg.disableCache /\ cfg.cacheTime # Infinity /\ done'.out = "data" /\ ~done'.skip)
        => \A key \in DOMAIN queryCache' :
              (key # queryKey' /\ ~(cfg.keepPreviousData /\ key = queryKey))
              => now - C20_Stamp(queryCache'[key]) <= queryCache'[key].cacheTime]_vars

\* a pruning pass has just run at a time when entries of time 1 have expired,
\* and an entry other than the fetched one survived it
C20_Witness ==
    /\ ~cfg.disableCache
    /\ done.out = "data" /\ ~done.skip
    /\ now >= 3
    /\ \E key \in DOMAIN queryCache : key # done.key /\ key # queryKey

\* --------------------------------------------------------------- C21
\* a pruning pass runs in this step: the commit of a successful fetch, with
\* caching enabled and a finite cacheTime
PruningPass ==
    ~cfg.disableCache /\ cfg.cacheTime # Infinity /\ done'.out = "data" /\ ~done'.skip

\* C21: pruning never removes the entry of the current query key held in
\* state, whatever its age and whichever key the successful fetch was for;
\* with keepPreviousData it never removes the entry of the previous queryKey
\* either.
C21_PruningKeepsCurrentKey ==
    [][PruningPass
        => /\ queryKey' \in DOMAIN queryCache => queryKey' \in DOMAIN queryCache'
           /\ (cfg.keepPreviousData /\ queryKey \in DOMAIN queryCache)
                  => queryKey \in DOMAIN queryCache']_vars

\* --------------------------------------------------------------- C22
C22_RetryCountInRange(entry) ==
    entry.errorInfo # NoErrorInfo
        => 1 <= entry.errorInfo.retryCount /\ entry.errorInfo.retryCount <= cfg.maxRetries

\* C22: in every reachable state, status == error implies that the entry of
\* the current key has a non-null errorInfo with 1 <= retryCount <=
\* maxRetries; every errorInfo.retryCount stored in queryCache lies in
\* [1, maxRetries].  (Stated for a store whose queryKey has been set.)
C22_ErrorInfoInRange ==
    /\ (status = "error" /\ queryKey # << >>)
           => /\ queryKey \in DOMAIN queryCache
              /\ queryCache[queryKey].errorInfo # NoErrorInfo
    /\ \A key \in DOMAIN queryCache : C22_RetryCountInRange(queryCache[key])

\* --------------------------------------------------------------- C27
\* a failed fetch recorded its error in this step
ErrorRecorded ==
    /\ done'.out = "null" /\ ~done'.skip
    /\ done'.err # NoError /\ ~IsAbortError(done'.err)

\* C27: with maxRetries = 0, a failed fetch records errorInfo.retryCount == 1
\* in the entry of the fetched key and schedules no retry timer.
C27_ZeroRetriesRecordsOne ==
    [][(cfg.maxRetries = 0 /\ ErrorRecorded)
        => /\ done'.key \in DOMAIN queryCache'
           /\ queryCache'[done'.key].errorInfo.retryCount = 1
           /\ activeRefetchTimeout' = activeRefetchTimeout
           /\ leakedTimers' = leakedTimers]_vars

\* --------------------------------------------------------------- C23
\* the commit of a successful fetch happens in this step
SuccessCommitted == done'.out = "data" /\ ~done'.skip

\* isStale(x) keeps returning true over a step
C23_StaysStale(x) == isStale(World, x) => isStale(World, x)'

\* isStale(x) is true while the current key has no lastFetchedAt
C23_StaleWithoutFetch(x) == LastFetchedAtFor(World, queryKey) = Null => isStale(World, x)

\* C23: for a fixed argument x, isStale(x) is monotone in elapsed time: once
\* it has returned true it returns true at every later time until a
\* successful fetch completes; without lastFetchedAt for the current key it
\* returns true.
C23_IsStaleMonotone ==
    [][\A x \in StaleOverrides :
          /\ C23_StaleWithoutFetch(x)
          /\ ~SuccessCommitted => C23_StaysStale(x)]_vars

\* C23 (amended): ... until a successful fetch completes or the current
\* query key changes.
C23_IsStaleMonotoneForKey ==
    [][\A x \in StaleOverrides :
          /\ C23_StaleWithoutFetch(x)
          /\ (~SuccessCommitted /\ queryKey' = queryKey) => C23_StaysStale(x)]_vars

\* the data of the current key went stale by age and stayed stale as the
\* clock went on
C23_Witness ==
    /\ LastFetchedAtFor(World, queryKey) # Null
    /\ \A x \in StaleOverrides : isStale(World, x)
    /\ now - LastFetchedAtFor(World, queryKey) > cfg.staleTime + 1

\* --------------------------------------------------------------- C25
\* the entry has outlived its cacheTime
C25_Expired(entry) == now - C20_Stamp(entry) > entry.cacheTime

\* C25: the queryCache of the persisted projection, as computed at
\* partialize time, contains no entry whose age exceeds its cacheTime, with
\* keepPreviousData on and off.
C25_PersistedCachePruned ==
    \A key \in DOMAIN partialize(World).queryCache :
        ~C25_Expired(partialize(World).queryCache[key])

\* C25 (amended): ... other than, with keepPreviousData, the entry of the
\* current queryKey, which is persisted whatever its age.
C25_PersistedCachePrunedButCurrent ==
    /\ \A key \in DOMAIN partialize(World).queryCache :
          \/ ~C25_Expired(partialize(World).queryCache[key])
          \/ cfg.keepPreviousData /\ key = queryKey
    /\ \A key \in DOMAIN queryCache :
          (~C25_Expired(queryCache[key]) \/ (cfg.keepPreviousData /\ key = queryKey))
          => /\ key \in DOMAIN partialize(World).queryCache
             /\ partialize(World).queryCache[key] = queryCache[key]

\* partialize drops an expired entry and, with keepPreviousData, keeps the
\* expired entry of the current key
C25_Witness ==
    /\ cfg.keepPreviousData
    /\ queryKey \in DOMAIN partialize(World).queryCache
    /\ C25_Expired(queryCache[queryKey])
    /\ \E key \in DOMAIN queryCache : key \notin DOMAIN partialize(World).queryCache

\* --------------------------------------------------------------- C26
\* C26: when disableCache is configured, queryCache holds no entry in any
\* reachable state (neither a successful nor a failed fetch writes one), and
\* getData() returns null.
C26_NoCacheWhenDisabled ==
    cfg.disableCache
        => /\ queryCache = << >>
           /\ \A arg \in ParamArgs : getData(World, arg) = Null

\* --------------------------------------------------------------- C28
\* C28: the refetch timer and the retry timer share one slot: in every
\* reachable state at most one refetch-or-retry timer is pending (scheduling
\* one first cancels the pending one, so a superseded timer never fires).
C28_OneTimerSlot == Cardinality(PendingTimers) <= 1

\* --------------------------------------------------------------- C29
\* C29: a failed fetch for key K with caching enabled leaves
\* queryCache[K].data and queryCache[K].lastFetchedAt as they were before the
\* failure (null when there was no entry) and changes only errorInfo of K;
\* the entries of all other keys are unchanged.
C29_ErrorPreservesData ==
    [][(~cfg.disableCache /\ ErrorRecorded)
        => LET K == done'.key
               before == CacheEntryOf(World, K)
           IN /\ DOMAIN queryCache' = DOMAIN queryCache \cup {K}
              /\ queryCache'[K].data = before.data
              /\ queryCache'[K].lastFetchedAt = before.lastFetchedAt
              /\ K \in DOMAIN queryCache => queryCache'[K].cacheTime = before.cacheTime
              /\ queryCache'[K].errorInfo # NoErrorInfo
              /\ \A key \in DOMAIN queryCache \ {K} : queryCache'[key] = queryCache[key]]_vars

\* a fetch for a key that has data has just failed, and the data is still there
C29_Witness ==
    /\ ~cfg.disableCache
    /\ done.out = "null" /\ done.err = "x" /\ ~done.skip
    /\ done.key \in DOMAIN queryCache
    /\ queryCache[done.key].data # Null
    /\ queryCache[done.key].lastFetchedAt # Null
    /\ queryCache[done.key].errorInfo # NoErrorInfo

\* --------------------------------------------------------------- C30
\* the first subscription is taken in this step
C30_FirstSubscribe == subscriptionCount = 0 /\ \E t \in BOOLEAN : Subscribe(t)

\* C30 (second sentence): when the subscriber count goes from 0 to 1 while
\* the engine is disabled, no fetch is started and no timer is scheduled.
C30_DisabledSubscribeIsIdle ==
    [][((~enabled \/ ~smEnabled) /\ C30_FirstSubscribe)
        => /\ Len(fetches') = Len(fetches)
           /\ PendingTimers' \subseteq PendingTimers]_vars

\* --------------------------------------------------------------- C24
\* the entries of a parameter map, whatever their insertion order
C24_Entries(params) == {params[i] : i \in 1..Len(params)}

\* the JSON array of the values in ascending key order: element i is the value
\* of the key that has i - 1 smaller keys
C24_Expected(params) ==
    [i \in 1..Len(params) |->
        LET e == CHOOSE e \in C24_Entries(params) :
                     Cardinality({d \in C24_Entries(params) : KeyLess(d.key, e.key)}) = i - 1
        IN JSONstringify(e.value)]

\* C24: two parameter maps with the same keys and equal values have the same
\* query key whatever the insertion order of their keys, and the query key is
\* the JSON array of the values taken in ascending key order.
C24_KeyIgnoresInsertionOrder ==
    /\ (probe.keyA # Unhashed /\ probe.keyB # Unhashed
            /\ C24_Entries(probe.a) = C24_Entries(probe.b))
           => probe.keyA = probe.keyB
    /\ probe.keyA # Unhashed => probe.keyA = C24_Expected(probe.a)
    /\ probe.keyB # Unhashed => probe.keyB = C24_Expected(probe.b)

\* two maps of two keys each, inserted in opposite orders, with different values
C24_Witness ==
    /\ probe.keyA # Unhashed /\ probe.keyB # Unhashed
    /\ Len(probe.a) = 2
    /\ probe.a # probe.b
    /\ C24_Entries(probe.a) = C24_Entries(probe.b)
    /\ JSONstringify(probe.a[1].value) # JSONstringify(probe.a[2].value)
    /\ probe.keyA = probe.keyB

\* --------------------------------------------------------------- C31
\* the last subscriber leaves in this step
C31_LastUnsubscribe == subscriptionCount = 1 /\ Unsubscribe

\* C31: when the subscriber count drops to zero, the pending refetch/retry
\* timer is cancelled and, with abortInterruptedFetches, the in-flight fetch
\* is aborted; an aborted fetch resolves to null and changes neither status
\* nor queryCache.
C31_LastUnsubscribeStops ==
    [][/\ C31_LastUnsubscribe
          => /\ PendingTimers' = {}
             /\ cfg.abortInterruptedFetches =>
                    \A fid \in DOMAIN fetches :
                        InFlightNonSkip(fid) => fetches'[fid].st = "aborted"
       /\ cfg.abortInterruptedFetches =>
              \A fid \in DOMAIN fetches :
                  (fetches[fid].st = "aborted" /\ fetches'[fid].st = "settled")
                      => /\ done'.fid = fid /\ done'.out = "null"
                         /\ UNCHANGED <<status, queryCache>>]_vars

\* --------------------------------------------------------------- C32
\* fetch(newParams) was called in this step for the parameters [id |-> v]
C32_FetchCalled(v) ==
    /\ ret'.kind # "none"
    /\ ret'.kind = "started" => fetches'[ret'.val].params = [id |-> v]

C32_NothingChanges ==
    UNCHANGED <<storeVars, fetches, activeFetch, activeAbortController,
                activeRefetchTimeout, leakedTimers, lastFetchKey, oldVal>>

\* C32: a parameter notification whose value differs from the value observed
\* before recomputes the key and calls fetch(newParams); with keepPreviousData
\* off queryKey is the new key at once, with keepPreviousData on the
\* notification leaves queryKey unchanged. A notification with an equal value
\* changes nothing.
C32_ParamNotification ==
    [][\A v \in IdVals :
          (paramSubscribed /\ ParamChange(v))
              => IF v # oldVal
                 THEN /\ C32_FetchCalled(v)
                      /\ ~cfg.keepPreviousData => queryKey' = getQueryKey([id |-> v])
                      /\ cfg.keepPreviousData => queryKey' = queryKey
                 ELSE C32_NothingChanges]_vars

\* C32 (amended): ... with keepPreviousData on the notification leaves
\* queryKey unchanged unless fetch(newParams) returns the fresh cached data of
\* the new key, which makes queryKey the new key.
C32_ParamNotificationOrCached ==
    [][\A v \in IdVals :
          (paramSubscribed /\ ParamChange(v))
              => IF v # oldVal
                 THEN /\ C32_FetchCalled(v)
                      /\ ~cfg.keepPreviousData => queryKey' = getQueryKey([id |-> v])
                      /\ cfg.keepPreviousData =>
                             queryKey' = IF ret'.kind = "data"
                                         THEN getQueryKey([id |-> v]) ELSE queryKey
                 ELSE C32_NothingChanges]_vars

\* keepPreviousData: the fetch a notification started is in flight and queryKey
\* is still the previous key
C32_Witness ==
    /\ cfg.keepPreviousData
    /\ ret.kind = "started"
    /\ fetches[ret.val].src = "param"
    /\ fetches[ret.val].key = getQueryKey(getCurrentResolvedParams)
    /\ queryKey # << >>
    /\ queryKey # fetches[ret.val].key

\* --------------------------------------------------------------- C37
\* a plain fetch() of the current key: not forced, no probe, the default
\* staleTime, the engine enabled, nothing in flight, no error recorded
C37_PlainFetchOfCurrentKey(arg, options) ==
    /\ ~options.force /\ ~options.skip /\ options.stale = NoOverride
    /\ smEnabled /\ enabled
    /\ status # "loading" /\ activeFetch = NoFetch
    /\ error = NoError
    /\ queryKey = getQueryKey(IF arg = NoParams THEN getCurrentResolvedParams ELSE arg)
    /\ CacheEntryOf(World, queryKey).errorInfo = NoErrorInfo

\* C37: isStale() and fetch() agree on freshness for the current key: a plain
\* fetch() takes the fresh-cache path (no fetcher call) exactly when isStale()
\* returns false, for every elapsed time, elapsed == staleTime included.
C37_IsStaleAgreesWithFetch ==
    [][\A arg \in ParamArgs, options \in FetchOptionSets :
          (C37_PlainFetchOfCurrentKey(arg, options) /\ FetchCall(arg, options))
              => /\ ~isStale(World, NoOverride)
                     <=> (ret'.kind = "data" /\ Len(fetches') = Len(fetches))
                 /\ isStale(World, NoOverride) <=> ret'.kind = "started"]_vars

\* --------------------------------------------------------------- C35
\* C35: when the engine is enabled and every started fetch has settled,
\* queryKey is the query key of the currently resolved parameters, whatever
\* the order in which overlapping fetches completed.  (Stated for a store
\* whose parameter listener is attached and whose fetches the engine started.)
C35_QueryKeyFollowsParams ==
    (/\ enabled /\ smEnabled /\ paramSubscribed
     /\ fetches # << >>
     /\ \A fid \in DOMAIN fetches : fetches[fid].st = "settled")
        => queryKey = getQueryKey(getCurrentResolvedParams)

\* --------------------------------------------------------------- C34
\* C34: the enabled flag fetch() and the timer callbacks consult (the
\* subscription manager's) equals state.enabled after every change of
\* state.enabled, from setState or from the reactive cell, with or without
\* subscribers; so a store whose state.enabled is true never refuses a
\* non-forced fetch as disabled.
C34_EnabledFlagsAgree ==
    [][/\ enabled' # enabled => smEnabled' = enabled'
       /\ enabled' => ~RefusedAsDisabled(World', FALSE)]_vars

\* --------------------------------------------------------------- C36
\* the store reacts to the changes of its reactive values made in this step
C36_Reacts ==
    /\ \A v \in IdVals :
           (v # paramVal /\ ParamChange(v))
               => /\ C32_FetchCalled(v)
                  /\ ~cfg.keepPreviousData => queryKey' = getQueryKey([id |-> v])
    /\ \A v \in BOOLEAN :
           (v # enabledCell.value /\ EnabledCellChange(v)) => enabled' = v

\* C36: after the facade's reset() the store stays reactive: a later change
\* of a reactive parameter still recomputes queryKey and calls
\* fetch(newParams), a later change of the reactive enabled cell still
\* updates state.enabled, as before the reset.
C36_StaysReactiveAfterReset == [][C36_Reacts]_vars

\* --------------------------------------------------------------- C33
\* nothing has been called on the store since it was created
C33_JustCreated == calls = 0 /\ fetches = << >>

\* C33: a store created from persisted (rehydrated) state has its transient
\* fields activeAbortController, activeFetch, activeRefetchTimeout and
\* lastFetchKey at their initial values (null), whatever queryKey and error
\* the rehydrated state contains.
C33_TransientFieldsInitial ==
    C33_JustCreated
        => /\ activeAbortController = Null
           /\ activeFetch = NoFetch
           /\ activeRefetchTimeout = NoTimer
           /\ lastFetchKey = NullKey

\* C33 (amended): ... except lastFetchKey, which is the rehydrated queryKey
\* when that is not empty and the rehydrated error is null.
C33_TransientFieldsButLastFetchKey ==
    C33_JustCreated
        => /\ activeAbortController = Null
           /\ activeFetch = NoFetch
           /\ activeRefetchTimeout = NoTimer
           /\ lastFetchKey = IF queryKey # << >> /\ error = NoError THEN queryKey ELSE NullKey

\* a store rehydrated with the successful result of an earlier run
C33_Witness ==
    /\ C33_JustCreated
    /\ status = "success" /\ error = NoError
    /\ queryKey \in PersistedKeys
    /\ lastFetchKey = queryKey
    /\ activeFetch = NoFetch
====
